---------------------------- MODULE Spec2Model ----------------------------
(***************************************************************************)
(* Model of twisted.trial._asynctest.TestCase: the sequencing of setUp,    *)
(* the test method, the cleanups and tearDown (_deferSetUp and friends),   *)
(* the per-phase timeout of _run, and the blocking bridge _wait that       *)
(* drives the reactor until the sequence's Deferred has fired.             *)
(*                                                                         *)
(* Python runs all of this on one thread.  A coroutine segment (from a     *)
(* resumption to the next suspension) is written as a chain of steps, one  *)
(* per _run call, during which `active` names the running coroutine and    *)
(* every other action is disabled, so the chain is atomic for the rest of  *)
(* the system.                                                             *)
(***************************************************************************)
EXTENDS Naturals, Sequences, FiniteSets

\* How many tests the runner executes one after the other.
NumTests == 2
\* How many cleanups one test may register in total.
MaxCleanups == 2
\* How many cleanups one phase function may register.
MaxReg == 2

Tests == 1..NumTests

\* Failure kinds that come out of user code.  TimeoutError is made by
\* onTimeout (line 98), TypeError by the generator check (line 123).
UserKinds == {"FailTest", "SkipTest", "KeyboardInterrupt", "RuntimeError"}

\* What is explored: one test execution with every kind of input, or a
\* sequence of NumTests executions with fewer kinds of input (no cleanups,
\* a synchronous setUp and tearDown that pass, a test method that passes,
\* raises RuntimeError or returns a Deferred).
Suites == {"single", "sequence"}

\* Todo annotations: none, a todo expecting any failure, a todo whose errors
\* list holds RuntimeError only.
Todos(s) == IF s = "single" THEN {"none", "any", "RuntimeError"} ELSE {"none", "any"}

Phases == {"setUp", "body", "cleanup", "tearDown"}

\* What the function handed to _run does: it is a generator function, it
\* ends synchronously (a plain value, a fired Deferred, or an exception), it
\* returns a Deferred that has not fired, or it returns a Deferred that has
\* fired but whose callback chain is paused on another Deferred.
\* A cleanup is run through a lambda (line 212), never a generator
\* function.  Lines 193-199 and 216 tell KeyboardInterrupt from the rest
\* only, so cleanups and tearDown raise one kind of each.
SyncOutcomes(s, phase) ==
    IF s = "sequence"
    THEN (IF phase = "body" THEN {"ok", "RuntimeError"} ELSE {"ok"})
    ELSE IF phase \in {"cleanup", "tearDown"}
    THEN {"ok", "KeyboardInterrupt", "RuntimeError"}
    ELSE {"ok"} \cup UserKinds
Behaviours(s, phase) ==
    SyncOutcomes(s, phase)
        \cup (IF s = "sequence" /\ phase # "body" THEN {}
              ELSE {"pending", "stalled"})
        \cup (IF phase = "cleanup" \/ s = "sequence" THEN {} ELSE {"generator"})

\* What the test's own callbacks make of the failure onTimeout errbacks
\* into its still unfired Deferred: pass it on, handle it (the chain
\* continues with a success), or return a Deferred that has not fired.
ChainResponses == {"pass", "swallow", "stall"}

ReactorNames == {"crash", "iterate", "stop"}

VARIABLES
    suite,      \* what is explored, see Suites
    T,          \* per test: the TestCase instance, its coroutine, its Deferred d
                \* and the calls the result object received for it
    cur,        \* the test whose _runFixturesAndTest runs (0: none yet)
    rpc,        \* where the runner is in _runFixturesAndTest
    wexc,       \* the exception _wait left with ("none": it returned)
    running,    \* _wait_is_running
    loop,       \* the reactor: "stopped", "running", "crashed"
    reactor,    \* the reactor's crash, iterate and stop attributes
    active,     \* the coroutine that is executing (0: none)
    nested      \* what the last _wait call made while one was in flight did

vars == <<suite, T, cur, rpc, wexc, running, loop, reactor, active, nested>>

Rec(call, f, src) == [call |-> call, f |-> f, src |-> src]

\* A TestCase before run(): run() sets _passed to False.
NewTest(todo) ==
    [ pc |-> "new", res |-> "none", call |-> "none",
      passed |-> FALSE, timedOut |-> FALSE, todo |-> todo,
      cleanups |-> << >>, failures |-> << >>, ctx |-> "none", exc |-> "none",
      dres |-> "unfired", dcb |-> {}, live |-> FALSE, results |-> << >>,
      reactorMethods |-> {}, sink |-> << >>,
      \* history: cleanups registered, cleanups run (in order), the cleanup
      \* popped last, calls of _deferRunCleanups and how the last one ended,
      \* calls of _run for the test method and for tearDown, calls of
      \* reactor.run, failures that cleanups produced, whether the
      \* timer of the test method fired (on a pending or on a stalled result),
      \* cleanups registered by setUp, phases that ended with
      \* KeyboardInterrupt, what the function of the last _run call has
      \* delivered ("none": nothing yet, "generator": it was not called),
      \* the outcome the coroutine received last from an await
      nreg |-> 0, ran |-> << >>, cid |-> 0, drains |-> 0, drainEnd |-> "no",
      bodyRuns |-> 0, tearDowns |-> 0, loopRuns |-> 0, cfail |-> 0,
      bodyTimeout |-> "no", nregSetUp |-> 0, ki |-> {},
      fed |-> "none", got |-> "none" ]

Emit(r, call, f, src) == [r EXCEPT !.sink = Append(@, Rec(call, f, src))]

\* Todo.expected(f): a todo without an errors list expects every failure.
Expected(todo, f) == todo = "any" \/ todo = f

\* The coroutine of _deferSetUp has ended: its Deferred d fires with o.
Finish(r, o) == [r EXCEPT !.pc = "finished", !.dres = o]

\* _deferRunCleanups, lines 219-221: report what was collected.
ReportFailures(r) ==
    [r EXCEPT !.sink = @ \o [i \in 1..Len(r.failures) |->
                                Rec("addError", r.failures[i], "cleanup")],
              !.passed = IF Len(r.failures) > 0 THEN FALSE ELSE @,
              !.failures = << >>,
              !.drainEnd = "ended"]

\* What follows `await self._deferRunCleanups(None, result)`: the return of
\* lines 143/148/152, or the finally of line 172.
AfterDrain(r) ==
    IF r.ctx = "setUpFailed"
    THEN Finish(r, IF r.exc = "none" THEN "ok" ELSE r.exc)
    ELSE [r EXCEPT !.pc = "tearDown"]

\* _deferRunCleanups from the head of its while loop (line 208): pop the
\* last entry and go to run it, or leave the loop.
DrainLoop(r) ==
    IF Len(r.cleanups) > 0
    THEN [r EXCEPT !.cid = r.cleanups[Len(r.cleanups)],
                   !.cleanups = SubSeq(@, 1, Len(@) - 1),
                   !.pc = "cleanup"]
    ELSE AfterDrain(ReportFailures(r))

\* The call of _deferRunCleanups (line 207: failures = []).
StartDrain(r, ctx) ==
    DrainLoop([r EXCEPT !.ctx = ctx, !.failures = << >>,
                        !.drains = @ + 1, !.drainEnd = "no"])

\* Which failures of a cleanup line 216 catches: `except Exception`.
DrainCatches(f) == f # "KeyboardInterrupt"

\* The cleanup that was run ended with o (lines 210-217).
AfterCleanup(r, o) ==
    IF o = "ok" THEN DrainLoop(r)
    ELSE IF DrainCatches(o)
    THEN DrainLoop([r EXCEPT !.failures = Append(@, o), !.cfail = @ + 1])
    ELSE \* the exception leaves the generator: the drain's Deferred fails
         AfterDrain([r EXCEPT !.failures = << >>, !.cfail = @ + 1,
                              !.drainEnd = "raised", !.exc = o])

\* _deferSetUp, lines 138-152.
AfterSetUp(r, o) ==
    IF o = "ok" THEN [r EXCEPT !.pc = "body"]
    ELSE IF o = "SkipTest"
    THEN StartDrain(Emit(r, "addSkip", o, "setUp"), "setUpFailed")
    ELSE IF o = "KeyboardInterrupt"
    THEN StartDrain(Emit(Emit(r, "addError", o, "setUp"),
                         "stop", "none", "setUp"), "setUpFailed")
    ELSE StartDrain(Emit(r, "addError", o, "setUp"), "setUpFailed")

\* Lines 176-179 with the first two tests exchanged: an assertion failure
\* is recorded as a failure whatever the todo expects.
EbDeferTestMethodFailureFirst(r, f) ==
    IF f = "FailTest" THEN Emit(r, "addFailure", f, "body")
    ELSE IF r.todo # "none" /\ Expected(r.todo, f)
    THEN Emit(r, "addExpectedFailure", f, "body")
    ELSE IF f = "KeyboardInterrupt"
    THEN Emit(Emit(r, "addError", f, "body"), "stop", "none", "body")
    ELSE IF f = "SkipTest" THEN Emit(r, "addSkip", f, "body")
    ELSE Emit(r, "addError", f, "body")

\* _ebDeferTestMethod, lines 174-188.
EbDeferTestMethod(r, f) ==
    IF r.todo # "none" /\ Expected(r.todo, f)
    THEN Emit(r, "addExpectedFailure", f, "body")
    ELSE IF f = "FailTest" THEN Emit(r, "addFailure", f, "body")
    ELSE IF f = "KeyboardInterrupt"
    THEN Emit(Emit(r, "addError", f, "body"), "stop", "none", "body")
    ELSE IF f = "SkipTest" THEN Emit(r, "addSkip", f, "body")
    ELSE Emit(r, "addError", f, "body")

\* _deferSetUp, lines 154-170: the test method ended with o; the exception
\* stays in flight (exc) while the finally blocks run.
AfterBody(r, o) ==
    IF o = "ok"
    THEN StartDrain(IF r.todo # "none"
                    THEN Emit(r, "addUnexpectedSuccess", "none", "body")
                    ELSE [r EXCEPT !.passed = TRUE], "afterBody")
    ELSE StartDrain([EbDeferTestMethod(r, o) EXCEPT !.exc = o], "afterBody")

\* _deferTearDown, lines 190-199, then the end of the coroutine.
AfterTearDown(r, o) ==
    LET end == IF r.exc = "none" THEN "ok" ELSE r.exc IN
    IF o = "ok" THEN Finish(r, end)
    ELSE IF o = "KeyboardInterrupt"
    THEN Finish([Emit(Emit(r, "addError", o, "tearDown"),
                      "stop", "none", "tearDown") EXCEPT !.passed = FALSE], end)
    ELSE Finish([Emit(r, "addError", o, "tearDown") EXCEPT !.passed = FALSE], end)

\* The coroutine is resumed with the outcome o of the phase it awaited.
AfterPhase(r, o) ==
    LET r1 == [r EXCEPT !.ki = IF o = "KeyboardInterrupt"
                                THEN @ \cup {r.pc} ELSE @,
                        !.got = o] IN
    CASE r.pc = "setUp"    -> AfterSetUp(r1, o)
      [] r.pc = "body"     -> AfterBody(r1, o)
      [] r.pc = "cleanup"  -> AfterCleanup(r1, o)
      [] r.pc = "tearDown" -> AfterTearDown(r1, o)

\* addCleanup (lines 310-323), called n times by the phase's function.
Register(r, n) ==
    [r EXCEPT !.cleanups = @ \o [i \in 1..n |-> r.nreg + i],
              !.nreg = @ + n,
              !.nregSetUp = IF r.pc = "setUp" THEN @ + n ELSE @]

\* Line 131 without the test of call.active(): the timer is cancelled
\* whatever its state.
TimerGuardCancelsAlways(call, x) == [call |-> "cancelled", out |-> x]

\* _run, line 131: `lambda x: call.active() and call.cancel() or x`, run
\* with the outcome x of the phase's result.  cancel() returns None, so the
\* left operand of `or` is never true and x is what the lambda returns.
TimerGuard(call, x) ==
    LET left == IF call = "active" THEN "None" ELSE "False" IN
    [call |-> IF call = "active" THEN "cancelled" ELSE call,
     out  |-> IF left \in {"None", "False"} THEN x ELSE left]

\* Line 122 left out: no function is taken for a generator function.
IsGeneratorFunctionNever(b) == FALSE

\* _run, line 122: inspect.isgeneratorfunction(func).
IsGeneratorFunction(b) == b = "generator"

\* _run, lines 127-129: what calling the function gives.  A generator
\* function that is called returns a generator object, a plain value, and
\* runs none of its body.
CallResult(b) == IF b = "generator" THEN "ok" ELSE b

\* _run, lines 122-132, with what the function does as b.  The timer of a
\* result that has fired and is not paused is cancelled by the addBoth of
\* line 131 at once.
Run(r, b) ==
    LET r0 == [r EXCEPT !.bodyRuns  = IF r.pc = "body" THEN @ + 1 ELSE @,
                        !.tearDowns = IF r.pc = "tearDown" THEN @ + 1 ELSE @]
        r1 == [r0 EXCEPT !.ran = IF r.pc = "cleanup" THEN Append(@, r.cid) ELSE @]
    IN  IF IsGeneratorFunction(b)
        THEN AfterPhase([r0 EXCEPT !.call = "none", !.fed = b], "TypeError")
        ELSE IF b \in {"pending", "stalled"}
        THEN [r1 EXCEPT !.call = "active", !.res = b, !.fed = "none"]
        ELSE LET g == TimerGuard("active", CallResult(b)) IN
             AfterPhase([r1 EXCEPT !.call = g.call, !.fed = b], g.out)

\* The continuations _wait attached to d (lines 360-366) run when d fires.
WaitAppend(r) ==
    IF "append" \in r.dcb /\ r.live
    THEN [r EXCEPT !.results = Append(@, r.dres)] ELSE r

\* _wait, line 387: d.addBoth(append) runs append at once when d has fired.
AddBothAppend(r) ==
    LET r1 == [r EXCEPT !.dcb = @ \cup {"append"}] IN
    IF r.dres # "unfired" THEN WaitAppend(r1) ELSE r1

\* Lines 388-391 left out: _wait goes on to the reactor whatever it has.
WaitHasResultNever(r) == FALSE

\* _wait, line 388: `if results`.
WaitHasResult(r) == r.results # << >>

\* Line 365 left out: crash stops the reactor whenever d fires.
WaitCrashUnguarded(r) == "crash" \in r.dcb

\* _wait, lines 364-366: crash, guarded by `if results is not None`.
WaitCrash(r) == "crash" \in r.dcb /\ r.live

\* The result of a coroutine step of test t: the coroutine goes on to its
\* next _run call, is suspended on a result, or has ended and d fires.
Commit(t, r) ==
    IF r.pc = "finished"
    THEN /\ T' = [T EXCEPT ![t] = WaitAppend(r)]
         /\ loop' = IF WaitCrash(r) /\ loop = "running" THEN "crashed" ELSE loop
         /\ active' = 0
    ELSE /\ T' = [T EXCEPT ![t] = r]
         /\ loop' = loop
         /\ active' = IF r.res = "none" THEN t ELSE 0

Init ==
    /\ suite \in Suites
    /\ T = [t \in Tests |-> NewTest("none")]
    /\ cur = 0
    /\ rpc = "idle"
    /\ wexc = "none"
    /\ running = << >>
    /\ loop = "stopped"
    /\ reactor = [n \in ReactorNames |-> "orig"]
    /\ active = 0
    /\ nested = "none"

\* A test whose _runFixturesAndTest has returned and whose coroutine has
\* ended can take no further step: its instance is dropped when the next
\* test starts.
Dropped(r) == IF r.pc = "finished" THEN NewTest("none") ELSE r

\* _deprecateReactor, lines 271-274.
DeprecateReactor(r) ==
    [r EXCEPT !.reactorMethods = {<<n, reactor[n]>> : n \in ReactorNames}]

\* _runFixturesAndTest, lines 296-299: the reactor's methods are wrapped,
\* _timedOut is cleared and the coroutine of _deferSetUp is started.
RunFixturesAndTest(t) ==
    /\ rpc = "idle" /\ active = 0 /\ t = cur + 1
    /\ suite = "single" => t = 1
    /\ \E todo \in Todos(suite) :
         T' = [u \in Tests |->
                 IF u = t
                 THEN [DeprecateReactor(NewTest(todo)) EXCEPT
                          !.pc = "setUp", !.timedOut = FALSE]
                 ELSE Dropped(T[u])]
    /\ reactor' = [n \in ReactorNames |-> "deprecated"]
    /\ cur' = t
    /\ rpc' = "coroutine"
    /\ active' = t
    /\ wexc' = "none"
    /\ nested' = "none"
    /\ UNCHANGED <<suite, running, loop>>

\* One _run call of the running coroutine (lines 94-132) and what the
\* coroutine does with a result that is there at once.
RunPhase(t) ==
    /\ active = t
    /\ T[t].pc \in Phases /\ T[t].res = "none"
    /\ \E b \in Behaviours(suite, T[t].pc) :
       \E n \in 0..MaxReg :
         /\ n > 0 => /\ suite = "single"
                     /\ b # "generator"
                     /\ T[t].pc # "tearDown"
                     /\ T[t].nreg + n <= MaxCleanups
         /\ Commit(t, Run(Register(T[t], n), b))
    /\ UNCHANGED <<suite, cur, rpc, wexc, running, reactor, nested>>

\* The test's own chain delivers the phase's result o: the addBoth of line
\* 131 cancels the timer if it is still active, and the coroutine resumes.
ResultFires(t, o) ==
    /\ loop = "running" /\ active = 0
    /\ T[t].res \in {"pending", "stalled"}
    /\ o \in SyncOutcomes(suite, T[t].pc)
    /\ LET g == TimerGuard(T[t].call, o) IN
         Commit(t, AfterPhase([T[t] EXCEPT !.res = "none", !.call = g.call,
                                           !.fed = o], g.out))
    /\ UNCHANGED <<suite, cur, rpc, wexc, running, reactor, nested>>

\* Lines 113-117 without the todo: the timeout is always an error.
ReportTimeoutAsError(r) == Emit(r, "addError", "TimeoutError", r.pc)

\* onTimeout, lines 113-117: the timeout is reported by the timer itself.
ReportTimeout(r) ==
    IF r.todo # "none" /\ Expected(r.todo, "TimeoutError")
    THEN Emit(r, "addExpectedFailure", "TimeoutError", r.pc)
    ELSE Emit(r, "addError", "TimeoutError", r.pc)

\* onTimeout, lines 97-117: the timer of the phase test t awaits fires.
TimerFires(t) ==
    /\ loop = "running" /\ active = 0
    /\ T[t].call = "active"
    /\ IF T[t].res = "pending"
       THEN \* d.errback(f) runs the test's own chain first
            \E resp \in ChainResponses :
              LET r == [T[t] EXCEPT !.call = "fired", !.res = "none",
                                    !.bodyTimeout = IF T[t].pc = "body" THEN "pending" ELSE @] IN
              CASE resp = "pass"    -> Commit(t, AfterPhase(r, "TimeoutError"))
                [] resp = "swallow" -> Commit(t, AfterPhase(r, "ok"))
                [] resp = "stall"   -> Commit(t, [r EXCEPT !.res = "stalled"])
       ELSE \* AlreadyCalledError: crash the reactor, report here
            /\ T' = [T EXCEPT ![t] = ReportTimeout(
                        [@ EXCEPT !.call = "fired", !.timedOut = TRUE,
                                  !.cfail = IF T[t].pc = "cleanup" THEN @ + 1 ELSE @,
                                  !.bodyTimeout = IF T[t].pc = "body" THEN "stalled" ELSE @])]
            /\ loop' = "crashed"
            /\ active' = active
    /\ UNCHANGED <<suite, cur, rpc, wexc, running, reactor, nested>>

\* Something else stops the reactor (SIGINT calls reactor.stop, which _wait
\* has replaced by a crash, lines 375-393).
UserAbort ==
    /\ loop = "running" /\ active = 0
    /\ loop' = "crashed"
    /\ UNCHANGED <<suite, T, cur, rpc, wexc, running, reactor, active, nested>>

\* Line 353 without its check: every call is accepted.
WaitAcceptsAlways(run) == TRUE

\* _wait, line 353: the call is accepted when no _wait is in flight.
WaitAccepts(run) == run = << >>

\* Line 422 left out: the guard is never released.
WaitPopNothing(run) == run

\* _wait, line 422: running.pop().
WaitPop(run) == SubSeq(run, 1, Len(run) - 1)

\* Line 403 without `or self._timedOut`.
WaitReturnsOnResult(r) == r.results # << >>

\* _wait, line 403: whether _wait returns once the reactor has stopped.
WaitReturns(r) == r.results # << >> \/ r.timedOut

\* _wait, line 421: results = None.
WaitFinally(r) == [r EXCEPT !.live = FALSE, !.results = << >>]

\* _wait as _runFixturesAndTest calls it (line 301), up to the return of
\* line 391 or to reactor.run() (line 395).
Wait(t) ==
    /\ rpc = "coroutine" /\ active = 0 /\ cur = t
    /\ IF ~WaitAccepts(running)
       THEN /\ wexc' = "RuntimeError"
            /\ rpc' = "finally"
            /\ UNCHANGED <<T, running, loop, reactor>>
       ELSE LET r == AddBothAppend([T[t] EXCEPT !.live = TRUE, !.results = << >>]) IN
       IF WaitHasResult(r)
       THEN \* line 391: return, then the finally of lines 420-422
            /\ T' = [T EXCEPT ![t] = WaitFinally(r)]
            /\ running' = WaitPop(Append(running, "None"))
            /\ wexc' = "none"
            /\ rpc' = "finally"
            /\ UNCHANGED <<loop, reactor>>
       ELSE /\ T' = [T EXCEPT ![t] = [r EXCEPT !.dcb = @ \cup {"crash"},
                                               !.loopRuns = @ + 1]]
            /\ running' = Append(running, "None")
            /\ reactor' = [reactor EXCEPT !.stop = "waitStop"]
            /\ loop' = "running"
            /\ wexc' = "none"
            /\ rpc' = "waiting"
    /\ UNCHANGED <<suite, cur, active, nested>>

\* A callback run by the reactor calls _wait while the runner's _wait is in
\* flight (lines 351-354).  Were it accepted, it would find a result that
\* has fired and leave through lines 387-391 and the finally.
NestedWait ==
    /\ rpc = "waiting" /\ loop = "running" /\ active = 0
    /\ IF ~WaitAccepts(running)
       THEN nested' = "RuntimeError" /\ running' = running
       ELSE nested' = "accepted" /\ running' = WaitPop(Append(running, "None"))
    /\ UNCHANGED <<suite, T, cur, rpc, wexc, loop, reactor, active>>

\* _wait, lines 396-422: reactor.run() has returned.
WaitExit(t) ==
    /\ rpc = "waiting" /\ cur = t /\ active = 0
    /\ loop = "crashed"
    /\ reactor' = [reactor EXCEPT !.stop = "orig"]
    /\ wexc' = IF WaitReturns(T[t]) THEN "none" ELSE "KeyboardInterrupt"
    /\ T' = [T EXCEPT ![t] = WaitFinally(@)]
    /\ running' = WaitPop(running)
    /\ loop' = "stopped"
    /\ rpc' = "finally"
    /\ nested' = "none"
    /\ UNCHANGED <<suite, cur, active>>

\* _wait, lines 394-397 and 420-422: reactor.run() raises.
LoopRaises(t) ==
    /\ rpc = "waiting" /\ cur = t /\ active = 0
    /\ loop = "running"
    /\ reactor' = [reactor EXCEPT !.stop = "orig"]
    /\ wexc' = "Exception"
    /\ T' = [T EXCEPT ![t] = WaitFinally(@)]
    /\ running' = WaitPop(running)
    /\ loop' = "stopped"
    /\ rpc' = "finally"
    /\ nested' = "none"
    /\ UNCHANGED <<suite, cur, active>>

\* _cleanUp, lines 223-237.  postCaseCleanup cancels the delayed calls that
\* are still pending and reports them; dirty: the test left other things
\* in the reactor; logged: the log observer holds an error.
CleanUpCase(r, dirty, logged) ==
    LET r1 == IF dirty
              THEN [Emit(r, "addError", "DirtyReactorAggregateError", "janitor")
                      EXCEPT !.passed = FALSE]
              ELSE r
        r2 == IF logged
              THEN [Emit(r1, "addError", "LoggedError", "observer")
                      EXCEPT !.passed = FALSE]
              ELSE r1
    IN  IF r2.passed THEN Emit(r2, "addSuccess", "none", "cleanUp") ELSE r2

\* _cleanUp left by an exception raised after the Janitor's part (lines
\* 231-237 are in no try block): what the Janitor reported stays, nothing
\* else is recorded, and _classCleanUp is skipped.
CleanUpRaises(r, dirty) ==
    IF dirty
    THEN [Emit(r, "addError", "DirtyReactorAggregateError", "janitor")
            EXCEPT !.passed = FALSE]
    ELSE r

\* Lines 283-284 left out: nothing is put back.
UndeprecateReactorNothing(r) == reactor

\* _undeprecateReactor, lines 283-285.
UndeprecateReactor(r) ==
    [n \in ReactorNames |->
        IF \E p \in r.reactorMethods : p[1] = n
        THEN (CHOOSE p \in r.reactorMethods : p[1] = n)[2]
        ELSE reactor[n]]

\* _runFixturesAndTest, lines 302-306: the finally blocks.
CleanUp(t) ==
    /\ rpc = "finally" /\ cur = t /\ active = 0
    /\ \E dirty \in BOOLEAN, logged \in BOOLEAN, raises \in BOOLEAN :
         /\ dirty \/ logged => suite = "single"
         /\ raises => ~logged
         /\
           LET pendingCalls == \E u \in Tests : T[u].call = "active"
               r == IF raises
                    THEN CleanUpRaises(T[t], dirty \/ pendingCalls)
                    ELSE CleanUpCase(T[t], dirty \/ pendingCalls, logged)
           IN
           T' = [u \in Tests |->
                 IF u = t
                 THEN [r EXCEPT
                          !.reactorMethods = {},
                          !.call = IF @ = "active" THEN "cancelled" ELSE @]
                 ELSE [T[u] EXCEPT !.call = IF @ = "active" THEN "cancelled" ELSE @]]
         /\ wexc' = IF raises THEN "CleanUpError" ELSE wexc
    /\ reactor' = UndeprecateReactor(T[t])
    /\ rpc' = "idle"
    /\ UNCHANGED <<suite, cur, running, loop, active, nested>>

Next ==
    \/ \E t \in Tests : RunFixturesAndTest(t)
    \/ \E t \in Tests : RunPhase(t)
    \/ \E t \in Tests : Wait(t)
    \/ \E t \in Tests : WaitExit(t)
    \/ \E t \in Tests : LoopRaises(t)
    \/ \E t \in Tests : CleanUp(t)
    \/ \E t \in Tests : TimerFires(t)
    \/ \E t \in Tests : \E o \in {"ok"} \cup UserKinds : ResultFires(t, o)
    \/ UserAbort
    \/ NestedWait

Spec == Init /\ [][Next]_vars

\* The scheduling the reactor gives: code that can run does run, and a
\* delayed call that is pending is called while the reactor runs.  Nothing
\* makes a test's own Deferred fire, a user press Ctrl-C or another test
\* start.
FairSpec ==
    /\ Spec
    /\ \A t \in Tests : WF_vars(RunPhase(t))
    /\ \A t \in Tests : WF_vars(Wait(t))
    /\ \A t \in Tests : WF_vars(WaitExit(t))
    /\ \A t \in Tests : WF_vars(CleanUp(t))
    /\ \A t \in Tests : WF_vars(TimerFires(t))

----------------------------------------------------------------------------
\* Observations used by the properties.

\* _runFixturesAndTest of test t has returned, _wait having returned normally.
Returned(t) == cur = t /\ rpc = "idle" /\ wexc = "none"

Records(t) == {T[t].sink[i] : i \in 1..Len(T[t].sink)}

Has(t, call) == \E x \in Records(t) : x.call = call

Count(t, call, src) ==
    Cardinality({i \in 1..Len(T[t].sink) :
                    T[t].sink[i].call = call /\ T[t].sink[i].src = src})

Ran(t) == {T[t].ran[i] : i \in 1..Len(T[t].ran)}

\* C1: in every test execution whose test method was started, the cleanup
\* drain and tearDown have each run exactly once when the execution returns.
C1_FinalizersRunOnce ==
    \A t \in Tests :
        Returned(t) /\ T[t].bodyRuns > 0
            => T[t].drains = 1 /\ T[t].tearDowns = 1

\* C2: the cleanup the drain is about to run was registered after every
\* cleanup still on the stack, no cleanup on the stack has run, and when the
\* drain ends every registered cleanup has been run exactly once and the
\* stack is empty.
C2_DrainRunsAllInReverse ==
    \A t \in Tests :
        /\ \A i \in 1..Len(T[t].cleanups) :
              /\ T[t].cleanups[i] \notin Ran(t)
              /\ T[t].pc = "cleanup" /\ T[t].res = "none"
                    => T[t].cleanups[i] < T[t].cid
        /\ T[t].drainEnd # "no"
              => /\ T[t].cleanups = << >>
                 /\ Ran(t) = 1..T[t].nreg
                 /\ Len(T[t].ran) = T[t].nreg

\* C3: a failure of a cleanup never keeps the cleanups still registered from
\* running, and every failure a cleanup produced is reported by its own
\* addError.
C3_CleanupFailuresAllReported ==
    \A t \in Tests :
        T[t].drainEnd # "no"
            => /\ T[t].cleanups = << >>
               /\ Count(t, "addError", "cleanup") = T[t].cfail

\* C4: once a failure of a cleanup or of tearDown has been reported, the
\* sink never receives addSuccess for the test.
C4_NoSuccessAfterFinalizerFailure ==
    \A t \in Tests :
        (\E x \in Records(t) : /\ x.src \in {"cleanup", "tearDown"}
                               /\ x.call \in {"addError", "addExpectedFailure"})
            => ~Has(t, "addSuccess")

\* C5: when the timer of the test method has fired, the test is never
\* reported as a success, and the execution returns with the timeout
\* reported as an error or as an expected failure.
C5_BodyTimeoutIsError ==
    \A t \in Tests :
        T[t].bodyTimeout # "no"
            => /\ ~Has(t, "addSuccess")
               /\ Returned(t) =>
                    \E x \in Records(t) :
                        /\ x.f = "TimeoutError" /\ x.src = "body"
                        /\ x.call \in {"addError", "addExpectedFailure"}

\* C6: once the timer of the phase the running test awaits has fired, _wait
\* eventually returns to _runFixturesAndTest.
C6_TimeoutUnblocksWait ==
    (rpc = "waiting" /\ cur \in Tests /\ T[cur].call = "fired")
        ~> (rpc # "waiting")

\* C7: a _wait call made while another _wait is in flight is refused with
\* the re-entrancy error, and the refusal changes neither the guard, nor
\* the outer wait's results and continuations, nor the reactor.
C7_NestedWaitRefused ==
    [][(rpc = "waiting" /\ nested' # nested /\ nested' # "none")
          => /\ running # << >>
             /\ nested' = "RuntimeError"
             /\ UNCHANGED <<T, running, loop, reactor, rpc, wexc>>]_vars

C7_Witness ==
    rpc = "waiting" /\ running # << >> /\ nested = "RuntimeError"

\* C8: the guard is held exactly while a _wait is in progress, whichever
\* way the _wait before it ended, so the runner's _wait is never refused.
C8_GuardHeldExactlyDuringWait ==
    /\ (running # << >>) <=> (rpc = "waiting")
    /\ Len(running) <= 1
    /\ wexc # "RuntimeError"

\* The second test's _wait is in flight after the first test's _wait was
\* left with its coroutine still suspended.
C8_Witness ==
    /\ cur = 2 /\ rpc = "waiting" /\ running = <<"None">>
    /\ T[1].pc # "finished" /\ T[1].loopRuns = 1

\* C9: a _wait whose Deferred has fired when it is called returns at once:
\* it does not run the reactor, does not replace reactor.stop and does not
\* attach the crash continuation.
C9_FiredResultSkipsReactor ==
    [][(rpc = "coroutine" /\ rpc' # "coroutine" /\ T[cur].dres # "unfired")
          => /\ rpc' = "finally" /\ wexc' = "none"
             /\ loop' = loop /\ reactor' = reactor
             /\ "crash" \notin T'[cur].dcb
             /\ T'[cur].loopRuns = T[cur].loopRuns]_vars

C9_Witness ==
    /\ rpc = "finally" /\ wexc = "none" /\ cur \in Tests
    /\ T[cur].pc = "finished" /\ T[cur].loopRuns = 0
    /\ "append" \in T[cur].dcb

\* C10: when the reactor that _wait drives has stopped, _wait returns
\* normally exactly when d's outcome was recorded or the test's _timedOut
\* is set, and raises KeyboardInterrupt otherwise.
C10_WaitExitOutcome ==
    [][(rpc = "waiting" /\ loop = "crashed" /\ rpc' = "finally")
          => /\ (T[cur].results # << >>) <=> (T[cur].dres # "unfired")
             /\ (wexc' = "none") <=> (T[cur].results # << >> \/ T[cur].timedOut)
             /\ (wexc' # "none") => wexc' = "KeyboardInterrupt"]_vars

C10_Witness ==
    /\ rpc = "finally" /\ wexc = "KeyboardInterrupt" /\ cur \in Tests
    /\ T[cur].dres = "unfired" /\ ~T[cur].timedOut

\* The records of test t that come from one of the sources in srcs.
From(t, srcs) == {x \in Records(t) : x.src \in srcs}

\* C11: when setUp ended with SkipTest, the sink holds exactly one addSkip
\* for the test and no addError, addFailure or addSuccess from setUp, the
\* test method, tearDown or _cleanUp; the test method and tearDown have not
\* run; and when the execution returns every cleanup that setUp registered
\* has been run.
C11_SetUpSkip ==
    \A t \in Tests :
        Count(t, "addSkip", "setUp") > 0
            => /\ Count(t, "addSkip", "setUp") = 1
               /\ \A x \in From(t, {"setUp", "body", "tearDown", "cleanUp"}) :
                     x.call \notin {"addError", "addFailure", "addSuccess"}
               /\ T[t].bodyRuns = 0 /\ T[t].tearDowns = 0
               /\ Returned(t) => 1..T[t].nregSetUp \subseteq Ran(t)

\* The calls of the given names the sink received from the test method of t.
BodyCalls(t, calls) ==
    Cardinality({i \in 1..Len(T[t].sink) :
                    T[t].sink[i].src = "body" /\ T[t].sink[i].call \in calls})

\* C12: for a test with a todo, a failure of the test method that the todo
\* expects is recorded as addExpectedFailure, never as addError or
\* addFailure; the test method gives one addExpectedFailure or one
\* addUnexpectedSuccess and not both; a timeout of the test method that the
\* todo expects has given an addExpectedFailure when the execution returns;
\* and addSuccess is never recorded.
C12_TodoOutcome ==
    \A t \in Tests :
        T[t].todo # "none"
            => /\ ~Has(t, "addSuccess")
               /\ \A x \in From(t, {"body"}) :
                     x.f # "none" /\ Expected(T[t].todo, x.f)
                         => x.call = "addExpectedFailure"
               /\ BodyCalls(t, {"addExpectedFailure", "addUnexpectedSuccess"}) <= 1
               /\ BodyCalls(t, {"addExpectedFailure"}) = 1
                     => BodyCalls(t, {"addError", "addFailure"}) = 0
               /\ Returned(t) /\ T[t].bodyTimeout # "no"
                              /\ Expected(T[t].todo, "TimeoutError")
                     => BodyCalls(t, {"addExpectedFailure"}) = 1

\* The positions of the sink of t that hold a primary outcome: what setUp or
\* the test method reported, and addSuccess.
Primary(t) ==
    {i \in 1..Len(T[t].sink) :
        /\ T[t].sink[i].call # "stop"
        /\ T[t].sink[i].src \in {"setUp", "body", "cleanUp"}}

\* C13: an execution that has returned has reported exactly one primary
\* outcome, every other record of the test is an addError from a cleanup,
\* from tearDown or from the reactor clean-up, and the sink never holds two
\* different primary outcomes for one test.
C13_OnePrimaryOutcome ==
    \A t \in Tests :
        /\ Returned(t)
              => /\ Cardinality(Primary(t)) = 1
                 /\ \A i \in (1..Len(T[t].sink)) \ Primary(t) :
                       \/ T[t].sink[i].call = "stop"
                       \/ /\ T[t].sink[i].call = "addError"
                          /\ T[t].sink[i].src \in
                                {"cleanup", "tearDown", "janitor", "observer"}
        /\ \A i, j \in Primary(t) : T[t].sink[i].call = T[t].sink[j].call

\* C14: a KeyboardInterrupt that ended a phase of the test is recorded as
\* addError from that phase and followed by the sink's stop(); and when the
\* execution returns the cleanup stack has been drained and, if the test
\* method was started, tearDown has run once.
C14_InterruptRecordedFinalizersRun ==
    \A t \in Tests : \A p \in T[t].ki :
        /\ \E x \in From(t, {p}) :
              x.call = "addError" /\ x.f = "KeyboardInterrupt"
        /\ Count(t, "stop", p) > 0
        /\ Returned(t)
              => /\ T[t].drains = 1
                 /\ T[t].cleanups = << >>
                 /\ T[t].bodyRuns > 0 => T[t].tearDowns = 1

\* C15: when the paused chain of a phase resumes after onTimeout has marked
\* the test timed out, the step adds no record to the sink of the test,
\* takes its coroutine to no further phase and starts no cleanup, test
\* method or tearDown.
C15_LateResolutionDiscarded ==
    [][\A t \in Tests :
          T[t].timedOut /\ T[t].res = "stalled" /\ T'[t].res # "stalled"
              => /\ T'[t].sink = T[t].sink
                 /\ T'[t].pc = T[t].pc
                 /\ T'[t].drains = T[t].drains
                 /\ T'[t].tearDowns = T[t].tearDowns]_vars

\* What the step added to the sink of t.
Added(t) == SubSeq(T'[t].sink, Len(T[t].sink) + 1, Len(T'[t].sink))

\* C16: the step in which the test method ends adds to the sink, for a
\* failure f: addExpectedFailure if the todo expects f, else addFailure for
\* an assertion failure, else addError and stop() for KeyboardInterrupt,
\* else addSkip for SkipTest, else addError; and without a failure:
\* addUnexpectedSuccess if there is a todo, else nothing, the test being
\* marked passed.
C16_BodyClassification ==
    [][\A t \in Tests :
          T[t].pc = "body" /\ T'[t].pc # "body"
              => LET f == T'[t].exc
                     todo == T[t].todo
                     one(call) == << Rec(call, f, "body") >>
                 IN  /\ Added(t) =
                          (IF f = "none"
                           THEN IF todo # "none"
                                THEN << Rec("addUnexpectedSuccess", "none", "body") >>
                                ELSE << >>
                           ELSE IF todo = "any" \/ todo = f
                           THEN one("addExpectedFailure")
                           ELSE IF f = "FailTest" THEN one("addFailure")
                           ELSE IF f = "KeyboardInterrupt"
                           THEN one("addError") \o << Rec("stop", "none", "body") >>
                           ELSE IF f = "SkipTest" THEN one("addSkip")
                           ELSE one("addError"))
                     /\ (f = "none" /\ todo = "none" => T'[t].passed)]_vars

\* An assertion failure of the test method that the todo expects was
\* recorded as an expected failure.
C16_Witness ==
    \E t \in Tests :
        /\ T[t].todo = "any" /\ T[t].exc = "FailTest"
        /\ Rec("addExpectedFailure", "FailTest", "body") \in Records(t)

\* C17: when setUp has failed with anything but SkipTest, the sink holds
\* exactly one addError from setUp and no other outcome from it, stop() was
\* called exactly if the failure is KeyboardInterrupt, the test method and
\* tearDown have not run, addSuccess is not recorded, and when the
\* execution returns the cleanup drain has run once.
C17_SetUpFailure ==
    \A t \in Tests :
        (\E x \in From(t, {"setUp"}) : x.call # "addSkip")
            => /\ Count(t, "addError", "setUp") = 1
               /\ \A x \in From(t, {"setUp"}) : x.call \in {"addError", "stop"}
               /\ Count(t, "stop", "setUp") > 0
                     <=> Rec("addError", "KeyboardInterrupt", "setUp") \in Records(t)
               /\ T[t].bodyRuns = 0 /\ T[t].tearDowns = 0
               /\ ~Has(t, "addSuccess")
               /\ Returned(t) => T[t].drains = 1

\* The step delivers the outcome of the phase's own result to test t.
Delivers(t) ==
    /\ T[t].res \in {"pending", "stalled"} /\ T'[t].res = "none"
    /\ ~(T[t].call = "active" /\ T'[t].call = "fired")

\* The step is a _run call of test t.
Runs(t) == active = t /\ T[t].res = "none" /\ T[t].pc \in Phases

\* C18: a _run call finds no timer of the test pending and, unless the
\* function is a generator function, leaves one timer, pending or
\* cancelled; a timer fires only while it is pending and the phase has not
\* delivered its outcome; a result that is delivered while the timer is
\* pending cancels it; a timer that has fired is not cancelled afterwards;
\* and the coroutine receives the outcome the phase's result delivered.
C18_TimerRace ==
    [][\A t \in Tests :
          /\ Runs(t) /\ T'[t] # T[t]
                => /\ T[t].call # "active"
                   /\ T'[t].fed # "generator"
                        => T'[t].call \in {"active", "cancelled"}
          /\ T[t].call # "fired" /\ T'[t].call = "fired"
                => T[t].call = "active" /\ T[t].res \in {"pending", "stalled"}
          /\ Delivers(t)
                => /\ T[t].call = "active" => T'[t].call = "cancelled"
                   /\ T[t].call = "fired" => T'[t].call = "fired"
                   /\ T'[t].got = T'[t].fed
          /\ T[t].call = "fired" /\ T'[t].call \in {"active", "cancelled"}
                => Runs(t)]_vars

\* The timer fired on a result that had fired with its chain paused, and
\* the chain has delivered its outcome since.
C18_Witness ==
    \E t \in Tests :
        /\ T[t].timedOut /\ T[t].call = "fired" /\ T[t].res = "none"
        /\ T[t].fed = "RuntimeError" /\ T[t].got = "RuntimeError"

\* C19: the step in which a timer fires on a result that has fired already
\* crashes the reactor, sets _timedOut, adds exactly one record for the
\* phase the timer was armed in (addExpectedFailure if the todo expects the
\* TimeoutError, else addError), and leaves the result, the coroutine and
\* the Deferred of the sequence as they were.
C19_AlreadyFiredTimeout ==
    [][\A t \in Tests :
          T[t].call = "active" /\ T[t].res = "stalled" /\ T'[t].call = "fired"
              => /\ loop = "running" /\ loop' = "crashed"
                 /\ T'[t].timedOut
                 /\ Added(t) =
                      << Rec(IF T[t].todo = "any" THEN "addExpectedFailure"
                                                ELSE "addError",
                             "TimeoutError", T[t].pc) >>
                 /\ T'[t].res = "stalled" /\ T'[t].pc = T[t].pc
                 /\ T'[t].dres = T[t].dres /\ T'[t].got = T[t].got]_vars

\* tearDown's timer fired on a result that had fired, for a test whose todo
\* expects every failure.
C19_Witness ==
    \E t \in Tests :
        /\ T[t].pc = "tearDown" /\ T[t].res = "stalled" /\ T[t].timedOut
        /\ loop = "crashed"
        /\ Rec("addExpectedFailure", "TimeoutError", "tearDown") \in Records(t)

\* C20: the step in which _run is called with a generator function
\* schedules no timer and registers no cleanup, hands the coroutine a
\* TypeError, and adds to the sink what any other failure of that phase
\* adds (addError, or for the test method addExpectedFailure when the todo
\* expects every failure); the runner is not disturbed.
C20_GeneratorFunction ==
    [][\A t \in Tests :
          Runs(t) /\ T'[t] # T[t] /\ T'[t].fed = "generator"
              => /\ T'[t].call = "none"
                 /\ T'[t].nreg = T[t].nreg /\ T'[t].ran = T[t].ran
                 /\ T'[t].got = "TypeError"
                 /\ Added(t) =
                      << Rec(IF T[t].pc = "body" /\ T[t].todo = "any"
                             THEN "addExpectedFailure" ELSE "addError",
                             "TypeError", T[t].pc) >>
                 /\ ~T'[t].passed
                 /\ UNCHANGED <<rpc, wexc, running>>]_vars

\* The test method was a generator function; the todo of the test does not
\* expect the TypeError.
C20_Witness ==
    \E t \in Tests :
        /\ T[t].fed = "generator" /\ T[t].got = "TypeError" /\ T[t].todo = "RuntimeError"
        /\ Rec("addError", "TypeError", "body") \in Records(t)

\* The _wait that ran the reactor for test t has exited.
WaitOver(t) == T[t].loopRuns > 0 /\ ~(cur = t /\ rpc = "waiting")

\* C21: when the Deferred of a test fires after the _wait that ran the
\* reactor for it has exited, the step records no outcome for that _wait,
\* leaves the reactor as it is, and leaves the results of the _wait in
\* flight unchanged.
C21_ExitedWaitIsInert ==
    [][\A t \in Tests :
          WaitOver(t) /\ T[t].dres = "unfired" /\ T'[t].dres # "unfired"
              => /\ T'[t].results = << >>
                 /\ loop' = loop
                 /\ \A u \in Tests \ {t} : T'[u].results = T[u].results
                 /\ UNCHANGED <<rpc, wexc, running>>]_vars

\* The Deferred of the first test has fired while the reactor runs for the
\* second test, after the first test's _wait was left.
C21_Witness ==
    /\ cur = 2 /\ rpc = "waiting" /\ loop = "running"
    /\ T[1].loopRuns > 0 /\ "crash" \in T[1].dcb
    /\ T[1].pc = "finished" /\ T[1].dres # "unfired"

Originals == [n \in ReactorNames |-> "orig"]

\* C22: outside _runFixturesAndTest the reactor's crash, iterate and stop
\* are the originals and no test holds saved methods, however the last
\* _runFixturesAndTest was left; inside it the current test holds the three
\* originals, crash and iterate are the deprecating wrappers, and stop is
\* the wrapper until _wait runs the reactor, _wait's own stop while the
\* reactor runs, and the reactor's own stop once _wait has deleted its.
C22_ReactorRoundTrip ==
    /\ rpc = "idle" =>
          /\ reactor = Originals
          /\ \A t \in Tests : T[t].reactorMethods = {}
    /\ rpc # "idle" =>
          /\ T[cur].reactorMethods = {<<n, "orig">> : n \in ReactorNames}
          /\ \A t \in Tests \ {cur} : T[t].reactorMethods = {}
          /\ reactor.crash = "deprecated" /\ reactor.iterate = "deprecated"
          /\ reactor.stop = (IF rpc = "waiting" THEN "waitStop"
                             ELSE IF T[cur].loopRuns > 0 THEN "orig"
                             ELSE "deprecated")

\* The second test's _runFixturesAndTest was left by an exception of the
\* post-test cleanup, after its _wait had replaced and deleted stop.
C22_Witness ==
    /\ cur = 2 /\ rpc = "idle" /\ wexc = "CleanUpError"
    /\ T[2].loopRuns > 0
    /\ reactor = Originals /\ T[2].reactorMethods = {}

=============================================================================
